---- MODULE Spec2Model ----
(***************************************************************************)
(* Beatmap cache and reconciliation (app/usecases/beatmap.py,              *)
(* app/models/beatmap.py).  Every request is a coroutine: it runs without  *)
(* interruption between two awaits, and each awaited database statement    *)
(* or HTTP call is one step of its own.  The beatmaps table is keyed by    *)
(* beatmap_md5.                                                            *)
(***************************************************************************)
EXTENDS Integers, Sequences, FiniteSets, TLC

\* ---------------------------------------------------------------- bounds
MaxResp == 2        \* records in one catalog response
MaxPlays == 2       \* cap of a play counter
MaxCalls == 3       \* calls one request makes when it runs alone
MaxRaceCalls == 2   \* calls each of two concurrent requests makes

\* ------------------------------------------------------- program constants
NOT_SUBMITTED == -1
PENDING == 0
UPDATE_AVAILABLE == 1
RANKED == 2
APPROVED == 3
QUALIFIED == 4
LOVED == 5

FIVE_MINUTES == 300
TEN_MINUTES == 600
ONE_DAY == 86400

\* rating is held in tenths: 10.0 is 100
DEFAULT_RATING == 100
\* rankedby = None
NO_RANKEDBY == 0

HTTP_OK == 200
HTTP_FORBIDDEN == 403
HTTP_NOT_FOUND == 404
HTTP_SERVER_ERROR == 500

\* ------------------------------------------------------------- universes
Procs == {1, 2}
MD5s == {"A", "B"}
Ids == {42, 43}
\* the catalog's own status codes met here: pending, ranked, qualified
ApiStatuses == {0, 1, 3}
StatusCodes == {HTTP_OK, HTTP_FORBIDDEN, HTTP_NOT_FOUND, HTTP_SERVER_ERROR}
\* the instants the clock takes
TimePoints == {ONE_DAY, ONE_DAY + ONE_DAY}

None == [md5 |-> "None"]

NoResponse == [status_code |-> 0, json |-> << >>]

FROZEN_STATUSES == {RANKED, APPROVED, LOVED}

\* ------------------------------------------------------------ pure parts

\* RankedStatus.from_osu_api: the catalog's code to the internal status
from_osu_api(approved) ==
    CASE approved = 1 -> RANKED
      [] approved = 2 -> APPROVED
      [] approved = 3 -> QUALIFIED
      [] approved = 4 -> LOVED
      [] OTHER -> PENDING

KnownStatus(ranked_status) ==
    ranked_status \in {QUALIFIED, PENDING, LOVED, RANKED, APPROVED}

update_interval(ranked_status) ==
    CASE ranked_status = QUALIFIED -> FIVE_MINUTES
      [] ranked_status = PENDING -> TEN_MINUTES
      [] ranked_status = LOVED -> ONE_DAY
      [] ranked_status \in {RANKED, APPROVED} -> ONE_DAY

\* should_get_updates with the boundary left out
should_get_updates_strict(ranked_status, last_updated, t) ==
    last_updated < t - update_interval(ranked_status)

\* should_get_updates with the interval forgotten
should_get_updates_eager(ranked_status, last_updated, t) ==
    last_updated <= t

\* _should_get_updates, for a known status, at time t
should_get_updates(ranked_status, last_updated, t) ==
    last_updated <= t - update_interval(ranked_status)

deserves_update(b, t) == should_get_updates(b.status, b.last_update, t)

\* deserves_update_outcome with an unknown status taken as not due
deserves_update_defaulting(b, t) ==
    IF ~KnownStatus(b.status) THEN "fresh"
    ELSE IF deserves_update(b, t) THEN "due"
    ELSE "fresh"

\* how a read of beatmap.deserves_update ends: "raised" (NotImplementedError),
\* "due" (True) or "fresh" (False)
deserves_update_outcome(b, t) ==
    IF ~KnownStatus(b.status) THEN "raised"
    ELSE IF deserves_update(b, t) THEN "due"
    ELSE "fresh"

\* parse_one with frozen left at the dataclass default
parse_one_unfrozen(response_json, t) ==
    [md5 |-> response_json.file_md5,
     id |-> response_json.beatmap_id,
     status |-> from_osu_api(response_json.approved),
     plays |-> 0,
     passes |-> 0,
     last_update |-> t,
     frozen |-> FALSE,
     rankedby |-> NO_RANKEDBY,
     rating |-> DEFAULT_RATING]

\* one record of the catalog's answer to one parsed Beatmap
parse_one(response_json, t) ==
    [md5 |-> response_json.file_md5,
     id |-> response_json.beatmap_id,
     status |-> from_osu_api(response_json.approved),
     plays |-> 0,
     passes |-> 0,
     last_update |-> t,
     frozen |-> from_osu_api(response_json.approved) \in FROZEN_STATUSES,
     rankedby |-> NO_RANKEDBY,
     rating |-> DEFAULT_RATING]

parse_from_osu_api(response_json_list, t) ==
    [i \in 1 .. Len(response_json_list) |-> parse_one(response_json_list[i], t)]

\* "for beatmap in beatmaps: if beatmap.md5 == md5: return beatmap", else None
first_of(list, hits) ==
    IF hits = {} THEN None
    ELSE list[CHOOSE i \in hits : \A j \in hits : i <= j]

match_md5(list, md5) == first_of(list, {i \in 1 .. Len(list) : list[i].md5 = md5})

\* match_id falling back on the first beatmap of the answer
match_id_or_first(list, id) ==
    first_of(list, IF \E i \in 1 .. Len(list) : list[i].id = id
                   THEN {i \in 1 .. Len(list) : list[i].id = id}
                   ELSE 1 .. Len(list))

match_id(list, id) == first_of(list, {i \in 1 .. Len(list) : list[i].id = id})

\* keep_stats without the rating
keep_stats_unrated(beatmap, new_beatmap) ==
    [new_beatmap EXCEPT !.plays = beatmap.plays,
                        !.passes = beatmap.passes,
                        !.rankedby = beatmap.rankedby]

\* update_beatmap, same md5: keep our stats
keep_stats(beatmap, new_beatmap) ==
    [new_beatmap EXCEPT !.plays = beatmap.plays,
                        !.passes = beatmap.passes,
                        !.rating = beatmap.rating,
                        !.rankedby = beatmap.rankedby]

\* carry_over without the test of the md5
carry_over_always(beatmap, new_beatmap) == keep_stats(beatmap, new_beatmap)

carry_over(beatmap, new_beatmap) ==
    IF new_beatmap.md5 # beatmap.md5 THEN new_beatmap
    ELSE keep_stats(beatmap, new_beatmap)

\* is_regression with LOVED left out of the set
is_regression_unloved(beatmap, new_beatmap) ==
    new_beatmap.status = PENDING /\ beatmap.status \in {RANKED, APPROVED}

is_regression(beatmap, new_beatmap) ==
    new_beatmap.status = PENDING /\ beatmap.status \in {RANKED, APPROVED, LOVED}

\* resolve_status with the frozen branch leaving the catalog's status in place
resolve_status_unforced(beatmap, new_beatmap) ==
    IF beatmap.frozen
    THEN [new_beatmap EXCEPT !.frozen = TRUE, !.rankedby = beatmap.rankedby]
    ELSE IF beatmap.status # new_beatmap.status /\ is_regression(beatmap, new_beatmap)
    THEN [new_beatmap EXCEPT !.status = beatmap.status, !.frozen = TRUE]
    ELSE new_beatmap

\* update_beatmap: the status of the new version
resolve_status(beatmap, new_beatmap) ==
    IF beatmap.frozen
    THEN [new_beatmap EXCEPT !.status = beatmap.status,
                             !.frozen = TRUE,
                             !.rankedby = beatmap.rankedby]
    ELSE IF beatmap.status # new_beatmap.status /\ is_regression(beatmap, new_beatmap)
    THEN [new_beatmap EXCEPT !.status = beatmap.status, !.frozen = TRUE]
    ELSE new_beatmap

\* status_change_calls without the test of beatmap.frozen
status_change_calls_unguarded(beatmap, new_beatmap) ==
    IF beatmap.status = new_beatmap.status THEN << >>
    ELSE IF is_regression(beatmap, new_beatmap) THEN << "frozen" >>
    ELSE << "status_change" >>

\* update_beatmap: the calls of discord.beatmap_status_change
status_change_calls(beatmap, new_beatmap) ==
    IF beatmap.frozen THEN << >>
    ELSE IF beatmap.status = new_beatmap.status THEN << >>
    ELSE IF is_regression(beatmap, new_beatmap) THEN << "frozen" >>
    ELSE << "status_change" >>

stamp(new_beatmap, t) == [new_beatmap EXCEPT !.last_update = t]

\* the part of update_beatmap after the old row's fate is settled
merge(beatmap, new_beatmap, t) ==
    stamp(resolve_status(beatmap, carry_over(beatmap, new_beatmap)), t)

\* the merge written into the object it was given
merged_in_place(beatmap, new_beatmap) ==
    [beatmap EXCEPT !.status = new_beatmap.status,
                    !.frozen = new_beatmap.frozen,
                    !.last_update = new_beatmap.last_update]

\* update_beatmap: what its statements leave in the object the caller passed;
\* every assignment of lines 44-75 is to a field of new_beatmap
left_in_beatmap(beatmap, new_beatmap) == beatmap

\* ------------------------------------------------------------- the store
\* an INSERT IGNORE: a row already held under the md5 stays
insert_ignore(db, b) == IF db[b.md5] = None THEN [db EXCEPT ![b.md5] = b] ELSE db

replace_into(db, b) == [db EXCEPT ![b.md5] = b]

\* a DELETE that matches no row
delete_nothing(db, md5) == db

delete_md5(db, md5) == [db EXCEPT ![md5] = None]

increment_row(db, md5, increment_passcount) ==
    IF db[md5] = None THEN db
    ELSE [db EXCEPT ![md5].plays = @ + 1,
                    ![md5].passes = @ + (IF increment_passcount THEN 1 ELSE 0)]

rows_with_id(db, id) == {m \in MD5s : db[m] # None /\ db[m].id = id}

\* ------------------------------------------------------------- the state
VARIABLES
    store,        \* the beatmaps table: md5 -> row or None
    now,          \* time.time()
    pc,           \* where each request's coroutine stands
    op,           \* the use case a request runs, or ran last
    key,          \* the md5 or id it queries the catalog with
    beatmap,      \* update_beatmap's argument
    response,     \* the catalog's answer to the call's GET, once it has come
    new_beatmap,  \* update_beatmap's new_beatmap
    beatmaps,     \* the parsed answer of the catalog
    idx,          \* the position of the save loop in beatmaps
    result,       \* the beatmap a request holds: what its last call gave it
    outcome,      \* how the last call ended
    dblog,        \* the statements the call has executed on the table
    notifs,       \* the calls of beatmap_status_change the call has made
    expected,     \* per md5, the counters its row began with plus the increments
    calls         \* the calls each request has begun

vars == << store, now, pc, op, key, beatmap, response, new_beatmap, beatmaps,
           idx, result, outcome, dblog, notifs, expected, calls >>

Delete(md5) == [kind |-> "delete", md5 |-> md5]
Update(md5) == [kind |-> "update", md5 |-> md5]
Upsert(b) == [kind |-> "upsert", row |-> b]

Counters(b) == IF b = None THEN None ELSE [plays |-> b.plays, passes |-> b.passes]

\* rows the table may hold at start: written by earlier requests or by staff
InitStats == {[plays |-> 1, passes |-> 1, rankedby |-> 1000, rating |-> 75]}

InitRows ==
    {[md5 |-> "A", id |-> 42, status |-> s, plays |-> st.plays, passes |-> st.passes,
      last_update |-> 0, frozen |-> f, rankedby |-> st.rankedby, rating |-> st.rating] :
        s \in NOT_SUBMITTED .. LOVED, f \in BOOLEAN, st \in InitStats}


\* the state when the requests begin, the table holding one of rows (or
\* nothing, for None) under md5 A
InitWith(rows) ==
    /\ \E r \in rows : store = [m \in MD5s |-> IF m = "A" THEN r ELSE None]
    /\ now = ONE_DAY
    /\ pc = [p \in Procs |-> "idle"]
    /\ op = [p \in Procs |-> "none"]
    /\ key = [p \in Procs |-> 0]
    /\ beatmap = [p \in Procs |-> None]
    /\ response = [p \in Procs |-> NoResponse]
    /\ new_beatmap = [p \in Procs |-> None]
    /\ beatmaps = [p \in Procs |-> << >>]
    /\ idx = [p \in Procs |-> 0]
    /\ result = [p \in Procs |-> None]
    /\ outcome = [p \in Procs |-> "none"]
    /\ dblog = [p \in Procs |-> << >>]
    /\ notifs = [p \in Procs |-> << >>]
    /\ expected = [m \in MD5s |-> Counters(store[m])]
    /\ calls = [p \in Procs |-> 0]

Init == InitWith(InitRows \cup {None})

\* the rows two requests race on
RaceRows == {r \in InitRows : r.status \in {PENDING, RANKED}}

InitRace == InitWith(RaceRows)

\* ------------------------------------------------------------ the steps
RawRecords == [file_md5 : MD5s, beatmap_id : Ids, approved : ApiStatuses]

RECURSIVE SeqsUpTo(_, _)
SeqsUpTo(S, n) ==
    IF n = 0 THEN {<< >>}
    ELSE LET shorter == SeqsUpTo(S, n - 1)
         IN shorter \cup {Append(q, x) : q \in {r \in shorter : Len(r) = n - 1}, x \in S}

\* what the catalog may answer to one GET: to a query by md5 or by id at
\* most one record, to a query by set id a list
Answers(jsons) ==
    [status_code : StatusCodes \ {HTTP_OK}, json : {<< >>}]
        \cup [status_code : {HTTP_OK}, json : jsons]

OneResponses == Answers({<< >>} \cup {<< r >> : r \in RawRecords})

\* the beatmaps of one set differ in md5 and in id
OneSet(q) ==
    \A i, j \in 1 .. Len(q) :
        i # j => q[i].file_md5 # q[j].file_md5 /\ q[i].beatmap_id # q[j].beatmap_id

SetResponses == Answers({q \in SeqsUpTo(RawRecords, MaxResp) : OneSet(q)})

ResponsesAt(where) == IF where = "set_from_api" THEN SetResponses ELSE OneResponses

\* api_result without response.raise_for_status()
api_result_unchecked(resp) ==
    CASE resp.status_code = HTTP_NOT_FOUND -> "none"
      [] resp.status_code = HTTP_FORBIDDEN -> "raise"
      [] resp.json = << >> -> "none"
      [] OTHER -> "parsed"

\* how md5_from_api, id_from_api and set_from_api take the answer: "raise",
\* "none" (return None) or "parsed"
api_result(resp) ==
    CASE resp.status_code = HTTP_NOT_FOUND -> "none"
      [] resp.status_code = HTTP_FORBIDDEN -> "raise"
      [] resp.status_code # HTTP_OK -> "raise"
      [] resp.json = << >> -> "none"
      [] OTHER -> "parsed"

\* id_from_api as update_beatmap calls it: the beatmap of the queried id, or None
id_from_api(resp, id, t) ==
    IF api_result(resp) = "none" THEN None
    ELSE match_id(parse_from_osu_api(resp.json, t), id)

\* a call begins: its log and its locals are fresh
Begin(p, name, k, arg, log) ==
    /\ pc[p] = "idle"
    /\ calls' = [calls EXCEPT ![p] = @ + 1]
    /\ op' = [op EXCEPT ![p] = name]
    /\ key' = [key EXCEPT ![p] = k]
    /\ beatmap' = [beatmap EXCEPT ![p] = arg]
    /\ response' = [response EXCEPT ![p] = NoResponse]
    /\ new_beatmap' = [new_beatmap EXCEPT ![p] = None]
    /\ beatmaps' = [beatmaps EXCEPT ![p] = << >>]
    /\ idx' = [idx EXCEPT ![p] = 0]
    /\ dblog' = [dblog EXCEPT ![p] = log]
    /\ notifs' = [notifs EXCEPT ![p] = << >>]

\* a call ends, returning a beatmap or None
Return(p, value) ==
    /\ pc' = [pc EXCEPT ![p] = "idle"]
    /\ result' = [result EXCEPT ![p] = value]
    /\ outcome' = [outcome EXCEPT ![p] = "returned"]

\* a call ends with an exception
Raise(p) ==
    /\ pc' = [pc EXCEPT ![p] = "idle"]
    /\ result' = [result EXCEPT ![p] = None]
    /\ outcome' = [outcome EXCEPT ![p] = "raised"]

\* a call waits for the catalog or the database
Await(p, where) ==
    /\ pc' = [pc EXCEPT ![p] = where]
    /\ outcome' = [outcome EXCEPT ![p] = "running"]
    /\ UNCHANGED result

\* one statement of a call executed on the table
Write(p, db, entry) ==
    /\ store' = db
    /\ dblog' = [dblog EXCEPT ![p] = Append(@, entry)]

\* fetch_by_md5 going to the catalog also for a row that is due
FetchByMd5_refreshing(p, md5) ==
    /\ Begin(p, "fetch_by_md5", md5, None, << >>)
    /\ IF store[md5] # None /\ deserves_update_outcome(store[md5], now) # "due"
       THEN Return(p, store[md5])
       ELSE Await(p, "md5_from_api")
    /\ UNCHANGED << store, now, expected >>

\* fetch_by_md5: md5_from_database, then the catalog on a miss
FetchByMd5(p, md5) ==
    /\ Begin(p, "fetch_by_md5", md5, None, << >>)
    /\ IF store[md5] # None
       THEN Return(p, store[md5])
       ELSE Await(p, "md5_from_api")
    /\ UNCHANGED << store, now, expected >>

\* fetch_by_id: id_from_database (fetch_one: any row of that id), then the catalog
FetchById(p, id) ==
    /\ Begin(p, "fetch_by_id", id, None, << >>)
    /\ IF rows_with_id(store, id) # {}
       THEN \E m \in rows_with_id(store, id) : Return(p, store[m])
       ELSE Await(p, "id_from_api")
    /\ UNCHANGED << store, now, expected >>

\* set_from_api, is_definitely_new_beatmapset left at its default
SetFromApi(p, id) ==
    /\ Begin(p, "set_from_api", id, None, << >>)
    /\ Await(p, "set_from_api")
    /\ UNCHANGED << store, now, expected >>

\* update_beatmap on the beatmap the request holds, up to the catalog call
UpdateBeatmap(p) ==
    /\ result[p] # None
    /\ Begin(p, "update_beatmap", result[p].id, result[p], << >>)
    /\ CASE deserves_update_outcome(result[p], now) = "raised" -> Raise(p)
         [] deserves_update_outcome(result[p], now) = "fresh" -> Return(p, result[p])
         [] OTHER -> Await(p, "id_from_api")
    /\ UNCHANGED << store, now, expected >>

\* increment_playcount on the beatmap the request holds
IncrementPlaycount(p, increment_passcount) ==
    /\ result[p] # None
    /\ result[p].plays < MaxPlays
    /\ store[result[p].md5] # None => store[result[p].md5].plays < MaxPlays
    /\ Begin(p, "increment_playcount", result[p].md5, None, << Update(result[p].md5) >>)
    /\ Return(p, [result[p] EXCEPT
                    !.plays = @ + 1,
                    !.passes = @ + (IF increment_passcount THEN 1 ELSE 0)])
    /\ store' = increment_row(store, result[p].md5, increment_passcount)
    /\ expected' = increment_row(expected, result[p].md5, increment_passcount)
    /\ UNCHANGED now

\* md5_from_api / id_from_api / set_from_api called for a beatmap that is
\* definitely new: the answer arrives
NewFromApi(p, resp) ==
    /\ \/ pc[p] = "md5_from_api"
       \/ pc[p] = "id_from_api" /\ op[p] # "update_beatmap"
       \/ pc[p] = "set_from_api"
    /\ response' = [response EXCEPT ![p] = resp]
    /\ CASE api_result(resp) = "raise" -> Raise(p) /\ UNCHANGED << beatmaps, idx >>
         [] api_result(resp) = "none" -> Return(p, None) /\ UNCHANGED << beatmaps, idx >>
         [] OTHER ->
              /\ beatmaps' = [beatmaps EXCEPT ![p] = parse_from_osu_api(resp.json, now)]
              /\ idx' = [idx EXCEPT ![p] = 1]
              /\ Await(p, "save")
    /\ UNCHANGED << store, now, op, key, beatmap, new_beatmap, dblog, notifs,
                    expected, calls >>

\* what the call returns once every beatmap of the answer is saved
Selected(p) ==
    CASE op[p] = "fetch_by_md5" -> match_md5(beatmaps[p], key[p])
      [] op[p] = "fetch_by_id" -> match_id(beatmaps[p], key[p])
      [] OTHER -> None

\* "for beatmap in beatmaps: await save(beatmap)", one beatmap
SaveNext(p) ==
    /\ pc[p] = "save"
    /\ Write(p, replace_into(store, beatmaps[p][idx[p]]), Upsert(beatmaps[p][idx[p]]))
    /\ expected' = [expected EXCEPT ![beatmaps[p][idx[p]].md5] = Counters(beatmaps[p][idx[p]])]
    /\ IF idx[p] < Len(beatmaps[p])
       THEN /\ idx' = [idx EXCEPT ![p] = @ + 1]
            /\ UNCHANGED << pc, result, outcome >>
       ELSE /\ idx' = [idx EXCEPT ![p] = 0]
            /\ Return(p, Selected(p))
    /\ UNCHANGED << now, op, key, beatmap, response, new_beatmap, beatmaps, notifs, calls >>

\* update_beatmap from the answer of the catalog up to its next statement on
\* the table
UpdateFromApi(p, resp) ==
    /\ pc[p] = "id_from_api" /\ op[p] = "update_beatmap"
    /\ response' = [response EXCEPT ![p] = resp]
    /\ IF api_result(resp) = "raise"
       THEN Raise(p) /\ UNCHANGED << beatmap, new_beatmap, notifs >>
       ELSE LET found == id_from_api(resp, key[p], now)
            IN IF found = None
               THEN /\ Await(p, "delete_unsubmitted")
                    /\ UNCHANGED << beatmap, new_beatmap, notifs >>
               ELSE IF found.md5 # beatmap[p].md5
               THEN /\ new_beatmap' = [new_beatmap EXCEPT ![p] = found]
                    /\ Await(p, "delete_old")
                    /\ UNCHANGED << beatmap, notifs >>
               ELSE /\ new_beatmap' = [new_beatmap EXCEPT ![p] = merge(beatmap[p], found, now)]
                    /\ beatmap' = [beatmap EXCEPT ![p] =
                                      left_in_beatmap(beatmap[p], merge(beatmap[p], found, now))]
                    /\ notifs' = [notifs EXCEPT ![p] = status_change_calls(beatmap[p], found)]
                    /\ Await(p, "save_new")
    /\ UNCHANGED << store, now, op, key, beatmaps, idx, dblog, expected, calls >>

\* "it's now unsubmitted!": the old row is deleted and None returned
DeleteUnsubmitted(p) ==
    /\ pc[p] = "delete_unsubmitted"
    /\ Write(p, delete_md5(store, beatmap[p].md5), Delete(beatmap[p].md5))
    /\ expected' = delete_md5(expected, beatmap[p].md5)
    /\ Return(p, None)
    /\ UNCHANGED << now, op, key, beatmap, response, new_beatmap, beatmaps, idx,
                    notifs, calls >>

\* the md5 changed: the old row is deleted, then the new version is settled
DeleteOld(p) ==
    /\ pc[p] = "delete_old"
    /\ Write(p, delete_md5(store, beatmap[p].md5), Delete(beatmap[p].md5))
    /\ expected' = delete_md5(expected, beatmap[p].md5)
    /\ new_beatmap' = [new_beatmap EXCEPT ![p] = merge(beatmap[p], new_beatmap[p], now)]
    /\ beatmap' = [beatmap EXCEPT ![p] =
                      left_in_beatmap(beatmap[p], merge(beatmap[p], new_beatmap[p], now))]
    /\ notifs' = [notifs EXCEPT ![p] = status_change_calls(beatmap[p], new_beatmap[p])]
    /\ Await(p, "save_new")
    /\ UNCHANGED << now, op, key, response, beatmaps, idx, calls >>

\* "await save(new_beatmap); return new_beatmap"
SaveNew(p) ==
    /\ pc[p] = "save_new"
    /\ Write(p, replace_into(store, new_beatmap[p]), Upsert(new_beatmap[p]))
    /\ expected' =
         IF new_beatmap[p].md5 = beatmap[p].md5 /\ expected[beatmap[p].md5] # None
         THEN expected
         ELSE [expected EXCEPT ![new_beatmap[p].md5] = Counters(new_beatmap[p])]
    /\ Return(p, new_beatmap[p])
    /\ UNCHANGED << now, op, key, beatmap, response, new_beatmap, beatmaps, idx,
                    notifs, calls >>

\* time passes
Tick ==
    /\ \E t \in TimePoints : t > now /\ now' = t
    /\ UNCHANGED << store, pc, op, key, beatmap, response, new_beatmap, beatmaps,
                    idx, result, outcome, dblog, notifs, expected, calls >>

\* a request calls a use case
Call(p) ==
    \/ \E md5 \in MD5s : FetchByMd5(p, md5)
    \/ \E id \in Ids : FetchById(p, id)
    \/ \E id \in Ids : SetFromApi(p, id)
    \/ UpdateBeatmap(p)
    \/ \E increment_passcount \in BOOLEAN : IncrementPlaycount(p, increment_passcount)

\* the calls of the score path: look the beatmap up by md5, update it, count the play
ScoreCall(p) ==
    \/ \E md5 \in MD5s : FetchByMd5(p, md5)
    \/ UpdateBeatmap(p)
    \/ \E increment_passcount \in BOOLEAN : IncrementPlaycount(p, increment_passcount)

\* a call goes on from an await
Proceed(p) ==
    \/ \E resp \in ResponsesAt(pc[p]) : NewFromApi(p, resp)
    \/ SaveNext(p)
    \/ \E resp \in OneResponses : UpdateFromApi(p, resp)
    \/ DeleteUnsubmitted(p)
    \/ DeleteOld(p)
    \/ SaveNew(p)

\* one request, its calls one after the other
Next ==
    \/ Tick
    \/ calls[1] < MaxCalls /\ Call(1)
    \/ Proceed(1)

Spec == Init /\ [][Next]_vars

\* two requests at once on the score path
NextRace ==
    \/ Tick
    \/ \E p \in Procs : calls[p] < MaxRaceCalls /\ ScoreCall(p)
    \/ \E p \in Procs : Proceed(p)

SpecRace == InitRace /\ [][NextRace]_vars

\* ------------------------------------------- the engine on an empty table
InitEmpty == InitWith({None})

SpecEmpty == InitEmpty /\ [][Next]_vars

\* ---------------------------------------------- the staleness policy alone
MaxSkew == 1        \* seconds on either side of a boundary

Intervals == {FIVE_MINUTES, TEN_MINUTES, ONE_DAY}

\* the values of last_update within MaxSkew seconds of a boundary of the
\* policy at an instant of the clock
StaleTimes ==
    {u \in {t - i + d : t \in TimePoints, i \in Intervals, d \in -MaxSkew .. MaxSkew} :
        u >= 0}

StaleRows ==
    {[r EXCEPT !.last_update = u] : r \in {x \in InitRows : ~x.frozen}, u \in StaleTimes}

InitStale == InitWith(StaleRows)

\* a read of deserves_update on the Beatmap of the stored row
DeservesUpdate(p) ==
    /\ pc[p] = "idle"
    /\ store["A"] # None
    /\ op' = [op EXCEPT ![p] = "deserves_update"]
    /\ beatmap' = [beatmap EXCEPT ![p] = store["A"]]
    /\ outcome' = [outcome EXCEPT ![p] = deserves_update_outcome(store["A"], now)]
    /\ UNCHANGED << store, now, pc, key, response, new_beatmap, beatmaps, idx, result,
                    dblog, notifs, expected, calls >>

NextStale ==
    \/ Tick
    \/ DeservesUpdate(1)

SpecStale == InitStale /\ [][NextStale]_vars

\* ------------------------------------------------- the parse adapter alone
\* the catalog's status codes, graveyard to loved
CatalogStatuses == -2 .. 4

\* the records of two beatmaps, each under its own md5, in any status
ParseRecords ==
    {r \in [file_md5 : MD5s, beatmap_id : Ids, approved : CatalogStatuses] :
        (r.file_md5 = "A") = (r.beatmap_id = 42)}

InitParse == InitWith({None})

\* parse_from_osu_api on the json of an answer
ParseFromOsuApi(p, response_json_list) ==
    /\ pc[p] = "idle"
    /\ op[p] = "none"
    /\ op' = [op EXCEPT ![p] = "parse_from_osu_api"]
    /\ response' = [response EXCEPT ![p] =
                       [status_code |-> HTTP_OK, json |-> response_json_list]]
    /\ beatmaps' = [beatmaps EXCEPT ![p] = parse_from_osu_api(response_json_list, now)]
    /\ UNCHANGED << store, now, pc, key, beatmap, new_beatmap, idx, result, outcome,
                    dblog, notifs, expected, calls >>

NextParse ==
    \/ Tick
    \/ \E response_json_list \in SeqsUpTo(ParseRecords, MaxResp) :
          ParseFromOsuApi(1, response_json_list)

SpecParse == InitParse /\ [][NextParse]_vars

TypeOK ==
    /\ now \in TimePoints
    /\ \A m \in MD5s : store[m] # None => store[m].md5 = m
    /\ \A m \in MD5s : (store[m] = None) = (expected[m] = None)

\* ------------------------------------------------------------ the claims

\* the call of request p was an update_beatmap that saved and returned new_beatmap
Updated(p) ==
    /\ pc[p] = "idle"
    /\ op[p] = "update_beatmap"
    /\ outcome[p] = "returned"
    /\ new_beatmap[p] # None

\* the row of the last statement of the call
Persisted(p) == dblog[p][Len(dblog[p])].row

\* the catalog answered update_beatmap's query with the record of the queried id
HasRecord(p) ==
    /\ response[p].status_code = HTTP_OK
    /\ Len(response[p].json) = 1
    /\ response[p].json[1].beatmap_id = key[p]

Reported(p) == response[p].json[1]

ReportedStatus(p) == from_osu_api(Reported(p).approved)

SameIdentity(p) == Updated(p) /\ HasRecord(p) /\ Reported(p).file_md5 = beatmap[p].md5

NewIdentity(p) == Updated(p) /\ HasRecord(p) /\ Reported(p).file_md5 # beatmap[p].md5

\* C1: an update_beatmap that is given a frozen beatmap and returns an entity
\* persists that entity with the given beatmap's status and with frozen set,
\* whatever status the catalog reported; the entity is what the next call is given.
C1_FrozenStatusKept ==
    \A p \in Procs :
        Updated(p) /\ beatmap[p].frozen =>
            /\ dblog[p][Len(dblog[p])].kind = "upsert"
            /\ Persisted(p) = result[p]
            /\ Persisted(p).status = beatmap[p].status
            /\ Persisted(p).frozen

\* C1 witness: the second update in a row of a frozen row the table began with,
\* the catalog reporting another status
C1_Witness ==
    /\ Updated(1) /\ HasRecord(1)
    /\ beatmap[1].frozen
    /\ calls[1] = 3
    /\ beatmap[1].rating = 75
    /\ beatmap[1].last_update = ONE_DAY
    /\ ReportedStatus(1) # beatmap[1].status

\* C2 as stated: while a row exists, no step lowers its playcount or passcount.
C2_CountersNeverDecrease ==
    [][\A m \in MD5s :
          store[m] # None /\ store'[m] # None =>
              /\ store'[m].plays >= store[m].plays
              /\ store'[m].passes >= store[m].passes]_vars

\* C3 as stated: whatever the interleaving of increment_playcount with a
\* same-identity update_beatmap, the stored counters are those the row began
\* with plus the increments applied to it.
C3_NoIncrementLost ==
    \A m \in MD5s :
        store[m] # None =>
            /\ store[m].plays = expected[m].plays
            /\ store[m].passes = expected[m].passes

\* the case of C4: an unfrozen Pending beatmap, and the catalog reports the
\* same md5 as Ranked
C4_Case(p) ==
    /\ SameIdentity(p)
    /\ ~beatmap[p].frozen
    /\ beatmap[p].status = PENDING
    /\ ReportedStatus(p) = RANKED

\* C4 as stated: the merged entity is Ranked and not frozen, with exactly one
\* "status_change" notification.
C4_Original ==
    \A p \in Procs :
        C4_Case(p) =>
            /\ Persisted(p).status = RANKED
            /\ Persisted(p).frozen = FALSE
            /\ notifs[p] = << "status_change" >>

\* C4 amended: the merged entity is Ranked and carries frozen = true, the flag
\* the parse gives a Ranked record; exactly one "status_change" notification.
C4_StatusChange ==
    \A p \in Procs :
        C4_Case(p) =>
            /\ Persisted(p) = result[p]
            /\ Persisted(p).status = RANKED
            /\ Persisted(p).frozen = TRUE
            /\ notifs[p] = << "status_change" >>

C4_Witness == C4_Case(1) /\ store[beatmap[1].md5] = result[1]

\* C5 as stated: on a change of md5 the persisted entity is the parsed record,
\* nothing of the old beatmap in it, also when the old beatmap is frozen.
C5_Original ==
    \A p \in Procs :
        NewIdentity(p) =>
            /\ Persisted(p).md5 = Reported(p).file_md5
            /\ Persisted(p).plays = 0
            /\ Persisted(p).passes = 0
            /\ Persisted(p).rating = DEFAULT_RATING
            /\ Persisted(p).status = ReportedStatus(p)
            /\ Persisted(p).frozen = (ReportedStatus(p) \in FROZEN_STATUSES)
            /\ Persisted(p).rankedby = NO_RANKEDBY

\* what C5 amended says of the persisted entity
C5_Replaced(p) ==
    /\ Persisted(p) = result[p]
    /\ Persisted(p).md5 = Reported(p).file_md5
    /\ Persisted(p).id = Reported(p).beatmap_id
    /\ Persisted(p).plays = 0
    /\ Persisted(p).passes = 0
    /\ Persisted(p).rating = DEFAULT_RATING
    /\ IF beatmap[p].frozen
       THEN /\ Persisted(p).status = beatmap[p].status
            /\ Persisted(p).frozen = TRUE
            /\ Persisted(p).rankedby = beatmap[p].rankedby
       ELSE IF ReportedStatus(p) = PENDING /\ beatmap[p].status \in {RANKED, APPROVED, LOVED}
       THEN /\ Persisted(p).status = beatmap[p].status
            /\ Persisted(p).frozen = TRUE
            /\ Persisted(p).rankedby = NO_RANKEDBY
       ELSE /\ Persisted(p).status = ReportedStatus(p)
            /\ Persisted(p).frozen = (ReportedStatus(p) \in FROZEN_STATUSES)
            /\ Persisted(p).rankedby = NO_RANKEDBY

\* the step in which update_beatmap settles new_beatmap after a change of md5
SettlesNew(p) == pc[p] = "delete_old" /\ pc'[p] = "save_new"

\* C5 amended: on a change of md5 the persisted entity has the parsed record's
\* md5 and id, plays = 0, passes = 0, the default rating and last_update = now;
\* its status, frozen and rankedby are the parsed record's unless the old
\* beatmap is frozen (then the old status and rankedby, frozen = true) or the
\* catalog fell back to Pending from Ranked, Approved or Loved (then the old
\* status, frozen = true).
C5_IdentityChange ==
    /\ [](\A p \in Procs : NewIdentity(p) => C5_Replaced(p))
    /\ [][\A p \in Procs : SettlesNew(p) => new_beatmap'[p].last_update = now]_vars

C5_Witness ==
    /\ NewIdentity(1)
    /\ beatmap[1].frozen
    /\ beatmap[1].plays > 0
    /\ ReportedStatus(1) # beatmap[1].status

\* the case of C6: the beatmap of id 42 held under md5 A with plays counted,
\* and the catalog now reports id 42 under md5 B
C6_Case(p) ==
    /\ op[p] = "update_beatmap"
    /\ HasRecord(p)
    /\ beatmap[p].md5 = "A" /\ beatmap[p].id = 42 /\ beatmap[p].plays > 0
    /\ Reported(p).file_md5 = "B"

\* C6: update_beatmap first deletes the row of md5 A and only then upserts the
\* row of md5 B: while the save is awaited the call has executed the DELETE
\* alone and the table holds no row A; once it has returned the call has
\* executed the DELETE and then the REPLACE, and the table holds no row A and
\* a row B with plays = 0.
C6_DeleteThenUpsert ==
    \A p \in Procs :
        C6_Case(p) =>
            /\ pc[p] = "delete_old" => dblog[p] = << >>
            /\ pc[p] = "save_new" =>
                 /\ dblog[p] = << Delete("A") >>
                 /\ store["A"] = None
            /\ pc[p] = "idle" =>
                 /\ dblog[p] = << Delete("A"), Upsert(result[p]) >>
                 /\ store["A"] = None
                 /\ store["B"] = result[p]
                 /\ store["B"].plays = 0

C6_Witness == C6_Case(1) /\ pc[1] = "idle" /\ store["B"] # None

\* the case of C7: an unfrozen Ranked, Approved or Loved beatmap, and the
\* catalog reports the same md5 as Pending
C7_Case(p) ==
    /\ SameIdentity(p)
    /\ ~beatmap[p].frozen
    /\ beatmap[p].status \in {RANKED, APPROVED, LOVED}
    /\ ReportedStatus(p) = PENDING

\* C7: the merged entity keeps the old status and is frozen, and exactly one
\* notification is emitted, with action "frozen".
C7_RegressionFreezes ==
    \A p \in Procs :
        C7_Case(p) =>
            /\ Persisted(p) = result[p]
            /\ Persisted(p).status = beatmap[p].status
            /\ Persisted(p).frozen = TRUE
            /\ notifs[p] = << "frozen" >>

C7_Witness == C7_Case(1) /\ beatmap[1].status = LOVED

\* the case of C8: the catalog reports the same md5 with the status held
C8_Case(p) == SameIdentity(p) /\ ReportedStatus(p) = beatmap[p].status

\* the step in which update_beatmap merges a record of the same md5
MergesSame(p) == pc[p] = "id_from_api" /\ pc'[p] = "save_new"

\* C8: the persisted entity has the old plays, passes, rating and rankedby,
\* last_update = now, and no notification is emitted.
C8_StatsKept ==
    /\ [](\A p \in Procs :
            C8_Case(p) =>
                /\ Persisted(p) = result[p]
                /\ Persisted(p).plays = beatmap[p].plays
                /\ Persisted(p).passes = beatmap[p].passes
                /\ Persisted(p).rating = beatmap[p].rating
                /\ Persisted(p).rankedby = beatmap[p].rankedby
                /\ notifs[p] = << >>)
    /\ [][\A p \in Procs : MergesSame(p) => new_beatmap'[p].last_update = now]_vars

C8_Witness ==
    /\ C8_Case(1)
    /\ beatmap[1].plays = 2 /\ beatmap[1].passes = 1
    /\ beatmap[1].rating = 75 /\ beatmap[1].rankedby = 1000
    /\ beatmap[1].last_update < now

\* the catalog had no record for the id update_beatmap asked for: not found,
\* an empty answer, or no record of that id in the answer
NoRecord(p) ==
    \/ response[p].status_code = HTTP_NOT_FOUND
    \/ /\ response[p].status_code = HTTP_OK
       /\ \A i \in 1 .. Len(response[p].json) : response[p].json[i].beatmap_id # key[p]

\* C9: when the catalog has no record for a beatmap due for refresh,
\* update_beatmap deletes the row of the old md5, upserts nothing, emits no
\* notification and returns None.
C9_WithdrawalDeletes ==
    \A p \in Procs :
        op[p] = "update_beatmap" /\ NoRecord(p) =>
            /\ notifs[p] = << >>
            /\ new_beatmap[p] = None
            /\ pc[p] \in {"delete_unsubmitted", "idle"}
            /\ pc[p] = "delete_unsubmitted" => dblog[p] = << >>
            /\ pc[p] = "idle" =>
                 /\ outcome[p] = "returned"
                 /\ result[p] = None
                 /\ dblog[p] = << Delete(beatmap[p].md5) >>
                 /\ store[beatmap[p].md5] = None

C9_Witness ==
    /\ op[1] = "update_beatmap" /\ pc[1] = "idle"
    /\ response[1].status_code = HTTP_OK
    /\ Len(response[1].json) = 1
    /\ response[1].json[1].beatmap_id # key[1]
    /\ beatmap[1].md5 = "A" /\ store["A"] = None

\* the catalog call failed: forbidden, or another HTTP error
CatalogFailed(p) ==
    response[p].status_code \in {HTTP_FORBIDDEN, HTTP_SERVER_ERROR}

\* C10: when the catalog call of update_beatmap, fetch_by_md5, fetch_by_id or
\* set_from_api fails, the call ends with the exception, having executed no
\* statement on the table and emitted no notification.
C10_FailureLeavesStore ==
    \A p \in Procs :
        CatalogFailed(p) =>
            /\ pc[p] = "idle"
            /\ outcome[p] = "raised"
            /\ dblog[p] = << >>
            /\ notifs[p] = << >>

C10_Witness ==
    /\ CatalogFailed(1)
    /\ response[1].status_code = HTTP_SERVER_ERROR
    /\ op[1] = "update_beatmap"
    /\ store[beatmap[1].md5] = beatmap[1]

\* the refresh interval the policy gives a status
RefreshInterval(status) ==
    CASE status = QUALIFIED -> FIVE_MINUTES
      [] status = PENDING -> TEN_MINUTES
      [] status \in {LOVED, RANKED, APPROVED} -> ONE_DAY

\* the staleness policy flags b due at time t
Due(b, t) == KnownStatus(b.status) /\ b.last_update <= t - RefreshInterval(b.status)

\* the step is a read of deserves_update by request p
ReadsDeservesUpdate(p) == op'[p] = "deserves_update" /\ now' = now

\* C11: for Qualified, Pending, Loved, Ranked and Approved, with intervals of
\* 5 minutes, 10 minutes and one day for the last three, the refresh check
\* answers true exactly when last_update <= now - interval: true on the
\* boundary, false one second after it.
C11_BoundaryInclusive ==
    [][\A p \in Procs :
          ReadsDeservesUpdate(p) /\ KnownStatus(beatmap'[p].status) =>
              /\ outcome'[p] \in {"due", "fresh"}
              /\ (outcome'[p] = "due") =
                     (beatmap'[p].last_update <= now - RefreshInterval(beatmap'[p].status))
              /\ beatmap'[p].last_update = now - RefreshInterval(beatmap'[p].status)
                     => outcome'[p] = "due"
              /\ beatmap'[p].last_update = now - RefreshInterval(beatmap'[p].status) + 1
                     => outcome'[p] = "fresh"]_vars

\* C11 witness: a Qualified beatmap read exactly five minutes after its last
\* update, found due
C11_Witness ==
    /\ op[1] = "deserves_update"
    /\ beatmap[1].status = QUALIFIED
    /\ beatmap[1].last_update = now - FIVE_MINUTES
    /\ outcome[1] = "due"

\* update_beatmap was given a beatmap whose status the policy does not know
UnknownStatusCase(p) ==
    /\ op[p] = "update_beatmap"
    /\ beatmap[p].status \in {NOT_SUBMITTED, UPDATE_AVAILABLE}

\* the step in which request p calls update_beatmap
CallsUpdate(p) == op'[p] = "update_beatmap" /\ calls'[p] = calls[p] + 1

\* C12: for a beatmap whose status is NotSubmitted or UpdateAvailable,
\* update_beatmap ends with the exception of the staleness check: it returns
\* neither the beatmap nor a new one, calls the catalog not at all, executes no
\* statement on the table and leaves the table as it was.
C12_UnknownStatusFails ==
    /\ [](\A p \in Procs :
            UnknownStatusCase(p) =>
                /\ pc[p] = "idle"
                /\ outcome[p] = "raised"
                /\ response[p] = NoResponse
                /\ new_beatmap[p] = None
                /\ dblog[p] = << >>
                /\ notifs[p] = << >>)
    /\ [][\A p \in Procs :
            CallsUpdate(p) /\ beatmap'[p].status \in {NOT_SUBMITTED, UPDATE_AVAILABLE} =>
                store' = store]_vars

C12_Witness ==
    /\ UnknownStatusCase(1)
    /\ beatmap[1].status = UPDATE_AVAILABLE
    /\ outcome[1] = "raised"
    /\ store[beatmap[1].md5] = beatmap[1]

\* C13: when update_beatmap has returned a merged entity and is called again
\* on that entity inside the refresh window of its status, the second call
\* returns the same entity, calls the catalog not at all, executes no statement
\* on the table and emits no notification.
C13_SecondCallNoChange ==
    [][\A p \in Procs :
          /\ Updated(p)
          /\ CallsUpdate(p)
          /\ KnownStatus(result[p].status)
          /\ now - result[p].last_update < RefreshInterval(result[p].status)
          => /\ pc'[p] = "idle"
             /\ outcome'[p] = "returned"
             /\ result'[p] = result[p]
             /\ beatmap'[p] = result[p]
             /\ response'[p] = NoResponse
             /\ dblog'[p] = << >>
             /\ notifs'[p] = << >>
             /\ store' = store]_vars

\* C13 witness: fetch, update, update again at once: the second update was
\* given the merged entity (the stats of the first row, last_update = now) and
\* returned it
C13_Witness ==
    /\ calls[1] = 3
    /\ op[1] = "update_beatmap" /\ pc[1] = "idle" /\ outcome[1] = "returned"
    /\ response[1] = NoResponse
    /\ beatmap[1].rating = 75 /\ beatmap[1].last_update = now
    /\ result[1] = beatmap[1]
    /\ store[beatmap[1].md5] = beatmap[1]

\* the step in which request p calls fetch_by_md5 or fetch_by_id
CallsFetch(p) ==
    /\ op'[p] \in {"fetch_by_md5", "fetch_by_id"}
    /\ calls'[p] = calls[p] + 1

\* the rows the table holds for the key of the lookup p begins
FoundRows(p) ==
    IF op'[p] = "fetch_by_md5"
    THEN {store[m] : m \in {x \in MD5s : x = key'[p] /\ store[x] # None}}
    ELSE {store[m] : m \in rows_with_id(store, key'[p])}

\* the call p has begun is waiting for the catalog
CatalogInvoked(p) == pc'[p] \in {"md5_from_api", "id_from_api"}

\* C14 as stated: a lookup by fetch_by_md5 or fetch_by_id goes to the catalog
\* exactly when the table has no row for the key or the row found is due for
\* refresh.
C14_Original ==
    [][\A p \in Procs :
          CallsFetch(p) =>
              (CatalogInvoked(p) = (FoundRows(p) = {} \/ \E r \in FoundRows(p) : Due(r, now)))]_vars

\* C14 amended: fetch_by_md5 and fetch_by_id query the table first and go to
\* the catalog exactly when the table has no row for the key; a row found is
\* returned as it is, due or not, the table untouched.  The staleness policy is
\* consulted by update_beatmap, which goes to the catalog exactly when the
\* beatmap it is given is due and returns it untouched when it is not.
C14_LookupFlow ==
    [][\A p \in Procs :
          /\ CallsFetch(p) =>
                /\ CatalogInvoked(p) = (FoundRows(p) = {})
                /\ FoundRows(p) # {} =>
                      /\ pc'[p] = "idle"
                      /\ outcome'[p] = "returned"
                      /\ result'[p] \in FoundRows(p)
                /\ store' = store
          /\ CallsUpdate(p) /\ KnownStatus(result[p].status) =>
                /\ CatalogInvoked(p) = Due(result[p], now)
                /\ ~Due(result[p], now) =>
                      /\ pc'[p] = "idle"
                      /\ outcome'[p] = "returned"
                      /\ result'[p] = result[p]
                /\ store' = store]_vars

\* C14 witness: fetch_by_md5 found a row that is due and returned it without
\* a call of the catalog
C14_Witness ==
    /\ op[1] = "fetch_by_md5" /\ pc[1] = "idle" /\ outcome[1] = "returned"
    /\ response[1] = NoResponse
    /\ result[1] = store["A"]
    /\ result[1].status = RANKED
    /\ Due(result[1], now)

\* a and b are the same row but for last_update
SameButStamp(a, b) ==
    IF a = None \/ b = None THEN a = b
    ELSE [a EXCEPT !.last_update = b.last_update] = b

\* both requests have run update_beatmap to its end on snapshots of the same
\* row and got the same answer from the catalog
DuplicateUpdates ==
    /\ \A p \in Procs :
          /\ op[p] = "update_beatmap"
          /\ pc[p] = "idle"
          /\ outcome[p] = "returned"
          /\ response[p] # NoResponse
    /\ beatmap[1] = beatmap[2]
    /\ response[1] = response[2]

\* C15: when two requests run update_beatmap at once on snapshots of the same
\* row against the same answer of the catalog, then however their deletes and
\* upserts interleave the table ends as one update_beatmap leaves it, but for
\* last_update: no row of the old md5 when the catalog has no record or
\* reports another md5, and under the reported md5 the entity each call
\* returned.
C15_DuplicateUpdateSafe ==
    DuplicateUpdates =>
        /\ SameButStamp(result[1], result[2])
        /\ \A p \in Procs :
              /\ result[p] = None => store[beatmap[p].md5] = None
              /\ result[p] # None =>
                    /\ SameButStamp(store[result[p].md5], result[p])
                    /\ result[p].md5 # beatmap[p].md5 => store[beatmap[p].md5] = None

\* C15 witness: both requests found the beatmap of row A reported under md5 B,
\* and each deleted row A and saved row B
C15_Witness ==
    /\ DuplicateUpdates
    /\ beatmap[1].md5 = "A"
    /\ \A p \in Procs : dblog[p] = << Delete("A"), Upsert(result[p]) >>
    /\ result[1].md5 = "B"
    /\ store["B"].plays = 0

\* request p is inside a call of update_beatmap, or ends it, in this step
InUpdate(p) == op[p] = "update_beatmap" /\ op'[p] = "update_beatmap" /\ calls'[p] = calls[p]

\* C16: update_beatmap is given the caller's entity, and whatever the outcome
\* (the entity returned as it is, the row deleted, a new entity saved, an
\* exception) no step of the call changes a field of it; a merged entity it
\* returns is another value than the one it was given.
C16_InputUntouched ==
    /\ [](\A p \in Procs :
            /\ Updated(p) => result[p] = new_beatmap[p] /\ result[p] # beatmap[p]
            /\ op[p] = "update_beatmap" /\ outcome[p] = "returned" /\ response[p] = NoResponse
                   => result[p] = beatmap[p])
    /\ [][\A p \in Procs :
            /\ CallsUpdate(p) => beatmap'[p] = result[p]
            /\ InUpdate(p) => beatmap'[p] = beatmap[p]]_vars

\* C16 witness: a row the table began with was updated to another status, and
\* the entity the call was given is still that row
C16_Witness ==
    /\ Updated(1)
    /\ calls[1] = 2
    /\ beatmap[1].last_update = 0 /\ beatmap[1].rating = 75 /\ beatmap[1].plays = 1
    /\ beatmap[1].status = PENDING /\ ~beatmap[1].frozen
    /\ result[1].status = RANKED /\ result[1].frozen

\* C17: a call of update_beatmap emits no notification or one; it emits one
\* exactly when it merges a record of the catalog into a beatmap that is not
\* frozen and whose status differs from the record's, and so none when the
\* beatmap is not due, when the catalog has no record, when the beatmap is
\* frozen or when the status is the same.
C17_AtMostOneNotification ==
    \A p \in Procs :
        op[p] = "update_beatmap" =>
            /\ Len(notifs[p]) <= 1
            /\ notifs[p] # << >> =>
                  /\ HasRecord(p)
                  /\ ~beatmap[p].frozen
                  /\ ReportedStatus(p) # beatmap[p].status
            /\ response[p] = NoResponse => notifs[p] = << >>
            /\ Updated(p) /\ HasRecord(p) /\ ~beatmap[p].frozen
                  /\ ReportedStatus(p) # beatmap[p].status
                  => Len(notifs[p]) = 1

\* C17 witness: one notification on a change of md5 and of status
C17_Witness ==
    /\ NewIdentity(1)
    /\ ~beatmap[1].frozen
    /\ beatmap[1].status = QUALIFIED
    /\ notifs[1] = << "status_change" >>

\* C18: every entity parse_from_osu_api makes has plays = 0, passes = 0,
\* rating = 10.0 and no rankedby, and is frozen exactly when its status is
\* Ranked, Approved or Loved; there is one entity for each record, with the
\* record's md5 and id.
C18_ParseDefaults ==
    \A p \in Procs :
        op[p] = "parse_from_osu_api" =>
            /\ Len(beatmaps[p]) = Len(response[p].json)
            /\ \A i \in 1 .. Len(beatmaps[p]) :
                  /\ beatmaps[p][i].md5 = response[p].json[i].file_md5
                  /\ beatmaps[p][i].id = response[p].json[i].beatmap_id
                  /\ beatmaps[p][i].plays = 0
                  /\ beatmaps[p][i].passes = 0
                  /\ beatmaps[p][i].rating = DEFAULT_RATING
                  /\ beatmaps[p][i].rankedby = NO_RANKEDBY
                  /\ beatmaps[p][i].frozen = (beatmaps[p][i].status \in {RANKED, APPROVED, LOVED})

\* C18 witness: an answer of a Loved and a Qualified record parsed, the first
\* entity frozen and the second not
C18_Witness ==
    /\ op[1] = "parse_from_osu_api"
    /\ Len(beatmaps[1]) = 2
    /\ beatmaps[1][1].status = LOVED /\ beatmaps[1][1].frozen
    /\ beatmaps[1][2].status = QUALIFIED /\ ~beatmaps[1][2].frozen

\* the regression branch of update_beatmap: a beatmap that is not frozen and
\* Ranked, Approved or Loved, reported Pending
RegressionCase(p) ==
    /\ op[p] = "update_beatmap"
    /\ HasRecord(p)
    /\ ~beatmap[p].frozen
    /\ beatmap[p].status \in {RANKED, APPROVED, LOVED}
    /\ ReportedStatus(p) = PENDING

\* C19: from an empty table, under fetch_by_md5, fetch_by_id, set_from_api,
\* update_beatmap and increment_playcount alone, every row of the table is
\* frozen exactly when its status is Ranked, Approved or Loved; update_beatmap
\* never takes its regression branch and no "frozen" notification is emitted.
C19_FrozenIffFrozenStatus ==
    /\ \A m \in MD5s :
          store[m] # None => store[m].frozen = (store[m].status \in {RANKED, APPROVED, LOVED})
    /\ \A p \in Procs :
          /\ ~RegressionCase(p)
          /\ \A i \in 1 .. Len(notifs[p]) : notifs[p][i] # "frozen"

\* C19 witness: a row saved Ranked and frozen by a lookup was updated when the
\* catalog reported it Pending, and is still Ranked and frozen
C19_Witness ==
    /\ SameIdentity(1)
    /\ ReportedStatus(1) = PENDING
    /\ store[beatmap[1].md5] = result[1]
    /\ result[1].status = RANKED /\ result[1].frozen
    /\ notifs[1] = << >>

\* C20 as stated: whatever fetch_by_md5, fetch_by_id, set_from_api and
\* update_beatmap have done, the table holds at most one row of a beatmap id.
C20_OneRowPerId ==
    \A id \in Ids : Cardinality(rows_with_id(store, id)) <= 1

====
